---------------------------- MODULE Spec2Model ----------------------------
(***************************************************************************)
(* State-machine model of core/commands/filestore.go and                   *)
(* core/commands/cat.go (go-ipfs).                                         *)
(*                                                                         *)
(* The pieces of the two files are modelled each with its own              *)
(* specification over the same variables:                                  *)
(*   SpecKey       perKeyActionToChan: producer goroutine, buffered        *)
(*                 channel, context cancellation, a receiving consumer     *)
(*   SpecList      listResToChan, with the same channel and consumer       *)
(*   SpecDups      the goroutine of dupsFileStore.Run                      *)
(*   SpecProducers the three producers side by side                        *)
(*   FairKeyList   perKeyActionToChan and listResToChan under fair         *)
(*                 scheduling                                              *)
(*   SpecLs        the CLI PostRun goroutine of "filestore ls"             *)
(*   SpecLsRun     lsFileStore.Run, its producer and the PostRun goroutine *)
(*   SpecCatPR     the CLI PostRun goroutine of "cat"                      *)
(*   SpecCat       the function cat (one coreunix.Cat lookup per path)     *)
(*   SpecCatRun    CatCmd.Run around cat                                   *)
(***************************************************************************)
EXTENDS Integers, Sequences, FiniteSets, TLC

(***************************************************************************)
(* Bounds of the model and constants of the program.                       *)
(***************************************************************************)
\* make(chan interface{}, 128)
ChanCap == 128

\* longest argument list enumerated exhaustively over ArgAlphabet
MaxArgs == 3

\* the history counters sentAfterCancel / actionsAfterCancel saturate here
MaxAfter == 2

Nil == "nil"

(***************************************************************************)
(* filestore.ListRes values and the collaborators of perKeyActionToChan.   *)
(***************************************************************************)
\* a message is the tuple of the strings it is put together from;
\* EmptyMsg is the empty string ""
EmptyMsg == << >>

StatusOk == "StatusOk"
StatusOtherError == "StatusOtherError"

\* argument strings: "A" and "B" decode to a cid, "bad" does not
ValidCids == {"A", "B"}
ArgAlphabet == {"A", "B", "bad"}

\* cid.Decode(arg): (c, err)
Decode(arg) ==
    IF arg \in ValidCids
    THEN [c |-> <<"cid", arg>>, err |-> Nil]
    ELSE [c |-> Nil, err |-> "selected encoding not supported"]

\* the action passed to perKeyActionToChan, e.g. filestore.List(fs, c):
\* the entry of "A" is intact, the one of "B" cannot be read (ErrorMsg set)
Action(c) ==
    IF c[2] = "A"
    THEN [Status |-> StatusOk, ErrorMsg |-> EmptyMsg, Key |-> c,
          FilePath |-> "/f", Offset |-> 0, Size |-> 10]
    ELSE [Status |-> StatusOtherError, ErrorMsg |-> <<"read failed: ", c[2]>>,
          Key |-> c, FilePath |-> "/g", Offset |-> 0, Size |-> 20]

\* &filestore.ListRes{Status: StatusOtherError,
\*                    ErrorMsg: fmt.Sprintf("%s: %v", arg, err)}
ParseErrorRes(arg, err) ==
    [Status |-> StatusOtherError, ErrorMsg |-> <<arg, ": ", err>>,
     Key |-> Nil, FilePath |-> "", Offset |-> 0, Size |-> 0]

(***************************************************************************)
(* Values of the response layer (go-ipfs-cmds).                            *)
(***************************************************************************)
\* cmdsutil.ErrNormal, cmdsutil.ErrClient
ErrNormal == "ErrNormal"
ErrClient == "ErrClient"

\* an interface{} value: its dynamic type and the value
ListResType == "*filestore.ListRes"
ReaderType == "io.Reader"
NilValue == [type |-> "nil", val |-> Nil]

\* no progress bar
NoBar == [total |-> [neg |-> FALSE, mag |-> <<0, 0, 0, 0>>],
          started |-> FALSE]

\* A uint64 is the tuple of its four 16-bit limbs, least significant first.
Limb == 2 ^ 16

\* the uint64 of a number below 2^31
U64(n) == <<n % Limb, n \div Limb, 0, 0>>

Zero64 == U64(0)
MaxUint64 == <<Limb - 1, Limb - 1, Limb - 1, Limb - 1>>
\* 2^63
TwoTo63 == <<0, 0, 0, Limb \div 2>>

\* x + y of two uint64 (wraps modulo 2^64)
Add64(x, y) ==
    LET s1 == x[1] + y[1]
        s2 == x[2] + y[2] + (s1 \div Limb)
        s3 == x[3] + y[3] + (s2 \div Limb)
        s4 == x[4] + y[4] + (s3 \div Limb)
    IN  <<s1 % Limb, s2 % Limb, s3 % Limb, s4 % Limb>>

\* x < y of two uint64
Less64(x, y) ==
    \E i \in 1..4 : x[i] < y[i] /\ \A j \in (i + 1)..4 : x[j] = y[j]

\* int64(u) of a uint64 u: the same 64 bits, negative from 2^63 on
ToInt64(u) ==
    IF u[4] >= Limb \div 2
    THEN [neg |-> TRUE,
          mag |-> Add64(<<Limb - 1 - u[1], Limb - 1 - u[2],
                          Limb - 1 - u[3], Limb - 1 - u[4]>>, U64(1))]
    ELSE [neg |-> FALSE, mag |-> u]

\* the value of r while the goroutine holds no result: a nil pointer
NoResult ==
    [Status |-> Nil, ErrorMsg |-> EmptyMsg, Key |-> Nil, FilePath |-> "",
     Offset |-> 0, Size |-> 0]

\* before cat has returned
NoReturn == [readers |-> << >>, length |-> Zero64, err |-> Nil]

\* a nil *cmdsutil.Error
NoError == [Message |-> <<"<nil>">>, Code |-> ErrNormal]

\* the errors res.Next() can return
ioEOF == "io.EOF"
wireEOF == "errors.New(EOF)"
ErrRcvdError == "cmds.ErrRcvdError"
ctxCanceled == "context.Canceled"
EndErrors == {ioEOF, wireEOF, ErrRcvdError, ctxCanceled}

\* err.Error()
ErrorText(e) ==
    CASE e = ioEOF -> "EOF"
      [] e = wireEOF -> "EOF"
      [] e = ErrRcvdError -> "received command error"
      [] OTHER -> "context canceled"

VARIABLES
    \* perKeyActionToChan, its channel and its consumer
    args,               \* the args parameter
    idx,                \* number of args the range loop has taken
    ppc,                \* producer position: "range", "sendErr", "select", "done"
    r,                  \* the result the producer is about to send
    out,                \* content of the buffered channel out
    closed,             \* close(out) has run
    closeCount,         \* number of close(out) calls
    ctxDone,            \* ctx.Done() is closed (cancellation fired)
    recvd,              \* what the consumer has received from out, in order
    rangeEnded,         \* the consumer's "for v := range out" has ended
    actionCalls,        \* the cids action was invoked with, in order
    sentAfterCancel,    \* sends onto out since ctxDone (saturating)
    actionsAfterCancel, \* action invocations since ctxDone (saturating)
    \* the response res read by a PostRun goroutine
    stream,             \* the values res.Next() yields, in order
    streamEnd,          \* the error res.Next() returns after them
    remoteErr,          \* res.Error()
    length,             \* res.Length()
    pulls,              \* number of res.Next() calls made
    \* the response emitter re written by a PostRun goroutine
    setErrors,          \* the re.SetError calls, in order
    emitted,            \* the re.Emit calls, in order
    reCloseCount,       \* number of re.Close() calls
    \* lsFileStore.PostRun goroutine
    lpc,                \* position: "next", "handle", "classify", "errors",
                        \*           "done", "panicked"
    v,                  \* v of the loop body
    err,                \* err
    errors,             \* errors
    printed,            \* lines written to os.Stdout / os.Stderr, in order
    \* CatCmd.PostRun goroutine
    cpc,                \* position: "start", "copy", "next", "cast", "bar",
                        \*           "emit", "done"
    copyFails,          \* whether cmds.Copy returns an error
    plan,               \* branch taken at line 72: "direct" or "progress"
    bar,                \* the progress bar: [total, started]
    reader,             \* the reader handed to re.Emit
    catLog,             \* calls made by the goroutine, in order
    \* cat
    catpc,              \* position: "range" or "returned"
    paths,              \* the paths parameter
    pathIdx,            \* number of paths the range loop has taken
    readers,            \* readers
    catLength,          \* length (uint64)
    lookups,            \* the paths coreunix.Cat was called with, in order
    catRet,             \* the returned [readers, length, err]
    \* listResToChan and the goroutine of dupsFileStore.Run
    listing,            \* what the calls of next return, in order
    keys,               \* the cids the channel ch delivers, in order
    \* lsFileStore.Run
    lrpc,               \* position: "start", "loop", "returned"
    fsErr,              \* the error of getFilestore
    listAllErr,         \* the error of filestore.ListAll
    runErrors,          \* the re.SetError calls of Run, in order
    \* CatCmd.Run
    crpc,               \* position: "start", "offline", "cat", "emit",
                        \*           "returned"
    nodeErr,            \* the error of GetNode
    online,             \* node.OnlineMode()
    offlineErr,         \* the error of node.SetupOfflineRouting
    emitErr,            \* the error of re.Emit
    reLength,           \* the re.SetLength calls, in order
    \* the calls made on the emitter re of CatCmd.PostRun, by the goroutine
    \* and by cmds.Copy, in order
    reCalls

keyVars == <<args, idx, ppc, r, out, closed, closeCount, ctxDone, recvd,
             rangeEnded, actionCalls, sentAfterCancel, actionsAfterCancel>>
resVars == <<stream, streamEnd, remoteErr, length, pulls>>
reVars == <<setErrors, emitted, reCloseCount>>
lsVars == <<lpc, v, err, errors, printed>>
prVars == <<cpc, copyFails, plan, bar, reader, catLog>>
catVars == <<catpc, paths, pathIdx, readers, catLength, lookups, catRet>>

prodVars == <<listing, keys>>
lsRunVars == <<lrpc, fsErr, listAllErr, runErrors>>
catRunVars == <<crpc, nodeErr, online, offlineErr, emitErr, reLength>>
moreVars == <<prodVars, lsRunVars, catRunVars>>

vars == <<keyVars, resVars, reVars, lsVars, prVars, catVars, moreVars, reCalls>>

\* the variables perKeyActionToChan and its consumer never touch
notKey == <<resVars, reVars, lsVars, prVars, catVars, moreVars, reCalls>>

\* the state of the pieces that a specification leaves out
IdleKey ==
    /\ args = << >> /\ idx = 0 /\ ppc = "done" /\ r = NoResult /\ out = << >>
    /\ closed = FALSE /\ closeCount = 0 /\ ctxDone = FALSE /\ recvd = << >>
    /\ rangeEnded = FALSE /\ actionCalls = << >>
    /\ sentAfterCancel = 0 /\ actionsAfterCancel = 0
IdleRes ==
    /\ stream = << >> /\ streamEnd = Nil /\ remoteErr = NoError
    /\ length = <<0, 0, 0, 0>>
    /\ pulls = 0
IdleRe == setErrors = << >> /\ emitted = << >> /\ reCloseCount = 0
IdleLs ==
    /\ lpc = "done" /\ v = NilValue /\ err = Nil /\ errors = FALSE
    /\ printed = << >>
IdlePR ==
    /\ cpc = "done" /\ copyFails = FALSE /\ plan = Nil
    /\ bar = NoBar /\ reader = NilValue
    /\ catLog = << >>
IdleCat ==
    /\ catpc = "returned" /\ paths = << >> /\ pathIdx = 0 /\ readers = << >>
    /\ catLength = <<0, 0, 0, 0>> /\ lookups = << >> /\ catRet = NoReturn
IdleProd == listing = << >> /\ keys = << >>
IdleLsRun ==
    /\ lrpc = "returned" /\ fsErr = Nil /\ listAllErr = Nil
    /\ runErrors = << >>
IdleCatRun ==
    /\ crpc = "returned" /\ nodeErr = Nil /\ online = TRUE
    /\ offlineErr = Nil /\ emitErr = Nil /\ reLength = << >>
IdleMore == IdleProd /\ IdleLsRun /\ IdleCatRun /\ reCalls = << >>

Sat(n) == IF n < MaxAfter THEN n + 1 ELSE MaxAfter

RECURSIVE SeqsUpTo(_, _)
\* all sequences over S of length at most n
SeqsUpTo(S, n) ==
    IF n = 0 THEN {<< >>}
    ELSE LET shorter == SeqsUpTo(S, n - 1)
         IN  shorter \cup {Append(s, x) : s \in {t \in shorter : Len(t) = n - 1}, x \in S}

\* ChanCap valid arguments, enough to fill the channel
Fill == [i \in 1..ChanCap |-> IF i % 2 = 1 THEN "A" ELSE "B"]

\* the argument lists explored: every short list, and two lists one longer
\* than the channel's capacity (ending in a valid and in an invalid argument)
ArgLists == SeqsUpTo(ArgAlphabet, MaxArgs) \cup {Fill \o <<"A">>, Fill \o <<"bad">>}

InitKey ==
    /\ args \in ArgLists
    /\ idx = 0
    /\ ppc = "range"
    /\ r = NoResult
    /\ out = << >>
    /\ closed = FALSE
    /\ closeCount = 0
    /\ ctxDone = FALSE
    /\ recvd = << >>
    /\ rangeEnded = FALSE
    /\ actionCalls = << >>
    /\ sentAfterCancel = 0
    /\ actionsAfterCancel = 0
    /\ IdleRes /\ IdleRe /\ IdleLs /\ IdlePR /\ IdleCat /\ IdleMore

\* CanSend of a channel without a bound
CanSendUnbounded == TRUE

\* out <- x : possible when the buffer has room
CanSend == Len(out) < ChanCap

Send(x) ==
    /\ CanSend
    /\ out' = Append(out, x)
    /\ sentAfterCancel' = IF ctxDone THEN Sat(sentAfterCancel) ELSE sentAfterCancel

\* ReturnAndClose without the deferred close(out)
ReturnWithoutClose ==
    /\ ppc' = "done"
    /\ UNCHANGED <<closed, closeCount>>

\* return: the deferred close(out) runs
ReturnAndClose ==
    /\ ppc' = "done"
    /\ closed' = TRUE
    /\ closeCount' = closeCount + 1

\* KeyNextArg with "return" in place of the error result and "continue"
KeyNextArgReturnOnBad ==
    /\ ppc = "range"
    /\ idx < Len(args)
    /\ idx' = idx + 1
    /\ LET arg == args[idx + 1]
           d   == Decode(arg)
       IN  IF d.err # Nil
           THEN /\ r' = NoResult
                /\ ReturnAndClose
                /\ UNCHANGED <<actionCalls, actionsAfterCancel>>
           ELSE /\ r' = Action(d.c)
                /\ actionCalls' = Append(actionCalls, d.c)
                /\ actionsAfterCancel' =
                       IF ctxDone THEN Sat(actionsAfterCancel) ELSE actionsAfterCancel
                /\ ppc' = "select"
                /\ UNCHANGED <<closed, closeCount>>
    /\ UNCHANGED <<args, out, ctxDone, recvd, rangeEnded, sentAfterCancel,
                   notKey>>

\* for _, arg := range args { c, err := cid.Decode(arg) ... r := action(c)
KeyNextArg ==
    /\ ppc = "range"
    /\ idx < Len(args)
    /\ idx' = idx + 1
    /\ LET arg == args[idx + 1]
           d   == Decode(arg)
       IN  IF d.err # Nil
           THEN /\ r' = ParseErrorRes(arg, d.err)
                /\ ppc' = "sendErr"
                /\ UNCHANGED <<actionCalls, actionsAfterCancel>>
           ELSE /\ r' = Action(d.c)
                /\ actionCalls' = Append(actionCalls, d.c)
                /\ actionsAfterCancel' =
                       IF ctxDone THEN Sat(actionsAfterCancel) ELSE actionsAfterCancel
                /\ ppc' = "select"
    /\ UNCHANGED <<args, out, closed, closeCount, ctxDone, recvd, rangeEnded,
                   sentAfterCancel,
                   notKey>>

\* KeySendErr without the send: the error result is built and dropped
KeySendErrDropped ==
    /\ ppc = "sendErr"
    /\ ppc' = "range"
    /\ r' = NoResult
    /\ UNCHANGED <<args, idx, out, closed, closeCount, ctxDone, recvd,
                   rangeEnded, actionCalls, sentAfterCancel,
                   actionsAfterCancel, notKey>>

\* out <- &filestore.ListRes{...}; continue     (a plain send, no select)
KeySendErr ==
    /\ ppc = "sendErr"
    /\ Send(r)
    /\ ppc' = "range"
    /\ r' = NoResult
    /\ UNCHANGED <<args, idx, closed, closeCount, ctxDone, recvd, rangeEnded,
                   actionCalls, actionsAfterCancel,
                   notKey>>

\* select { case out <- r: ...
KeySelectSend ==
    /\ ppc = "select"
    /\ Send(r)
    /\ ppc' = "range"
    /\ r' = NoResult
    /\ UNCHANGED <<args, idx, closed, closeCount, ctxDone, recvd, rangeEnded,
                   actionCalls, actionsAfterCancel,
                   notKey>>

\* ... case <-ctx.Done(): return }
KeySelectDone ==
    /\ ppc = "select"
    /\ ctxDone
    /\ ReturnAndClose
    /\ r' = NoResult
    /\ UNCHANGED <<args, idx, out, ctxDone, recvd, rangeEnded, actionCalls,
                   sentAfterCancel, actionsAfterCancel,
                   notKey>>

\* the range loop is exhausted: the goroutine returns
KeyLoopEnd ==
    /\ ppc = "range"
    /\ idx = Len(args)
    /\ ReturnAndClose
    /\ UNCHANGED <<args, idx, r, out, ctxDone, recvd, rangeEnded, actionCalls,
                   sentAfterCancel, actionsAfterCancel,
                   notKey>>

\* the goroutine of perKeyActionToChan
KeyProducer ==
    \/ KeyNextArg
    \/ KeySendErr
    \/ KeySelectSend
    \/ KeySelectDone
    \/ KeyLoopEnd

\* the request's context is cancelled
Cancel ==
    /\ ~ctxDone
    /\ ctxDone' = TRUE
    /\ UNCHANGED <<args, idx, ppc, r, out, closed, closeCount, recvd, rangeEnded,
                   actionCalls, sentAfterCancel, actionsAfterCancel,
                   notKey>>

\* for v := range out { ... } : one value received
Receive ==
    /\ ~rangeEnded
    /\ out # << >>
    /\ recvd' = Append(recvd, Head(out))
    /\ out' = Tail(out)
    /\ UNCHANGED <<args, idx, ppc, r, closed, closeCount, ctxDone, rangeEnded,
                   actionCalls, sentAfterCancel, actionsAfterCancel,
                   notKey>>

\* RangeEnd followed by "if ctx.Err() != nil { re.SetError(ctx.Err(), ...) }"
RangeEndReportsCancel ==
    /\ ~rangeEnded
    /\ closed
    /\ out = << >>
    /\ rangeEnded' = TRUE
    /\ runErrors' = IF ctxDone
                    THEN Append(runErrors, [msg |-> <<"context canceled">>,
                                            code |-> ErrNormal])
                    ELSE runErrors
    /\ UNCHANGED <<args, idx, ppc, r, out, closed, closeCount, ctxDone, recvd,
                   actionCalls, sentAfterCancel, actionsAfterCancel,
                   resVars, reVars, lsVars, prVars, catVars, prodVars,
                   lrpc, fsErr, listAllErr, catRunVars, reCalls>>

\* for v := range out { ... } : out is closed and drained, the loop ends
RangeEnd ==
    /\ ~rangeEnded
    /\ closed
    /\ out = << >>
    /\ rangeEnded' = TRUE
    /\ UNCHANGED <<args, idx, ppc, r, out, closed, closeCount, ctxDone, recvd,
                   actionCalls, sentAfterCancel, actionsAfterCancel,
                   notKey>>

NextKey ==
    \/ KeyNextArg
    \/ KeySendErr
    \/ KeySelectSend
    \/ KeySelectDone
    \/ KeyLoopEnd
    \/ Cancel
    \/ Receive
    \/ RangeEnd

SpecKey == InitKey /\ [][NextKey]_vars

(***************************************************************************)
(* listResToChan: the goroutine polls next until it returns nil and sends  *)
(* every result on the buffered channel out, or returns on ctx.Done().     *)
(* It shares the channel, the context and the consumer with                *)
(* perKeyActionToChan; idx counts the calls of next.                       *)
(***************************************************************************)
\* longest sequence of answers of next enumerated exhaustively
MaxList == 3

\* a nil *filestore.ListRes
NilListRes == NoResult

\* what a call of next may return: an intact entry, an entry that cannot be
\* read, or nil
NextAnswers == {Action(Decode("A").c), Action(Decode("B").c), NilListRes}

\* ChanCap entries, for the listing that is longer than the buffer
FillEntries ==
    [i \in 1..ChanCap |-> Action(Decode(IF i % 2 = 1 THEN "A" ELSE "B").c)]

\* the listings explored: every short sequence of answers (nil among them),
\* and one listing of one entry more than the channel's capacity
Listings ==
    SeqsUpTo(NextAnswers, MaxList) \cup {FillEntries \o <<Action(Decode("A").c)>>}

\* the k-th call of next: listing[k], and nil once the listing is exhausted
NextCall(k) == IF k <= Len(listing) THEN listing[k] ELSE NilListRes

InitList ==
    /\ listing \in Listings
    /\ keys = << >>
    /\ args = << >>
    /\ idx = 0
    /\ ppc = "poll"
    /\ r = NoResult
    /\ out = << >>
    /\ closed = FALSE
    /\ closeCount = 0
    /\ ctxDone = FALSE
    /\ recvd = << >>
    /\ rangeEnded = FALSE
    /\ actionCalls = << >>
    /\ sentAfterCancel = 0
    /\ actionsAfterCancel = 0
    /\ IdleRes /\ IdleRe /\ IdleLs /\ IdlePR /\ IdleCat
    /\ IdleLsRun /\ IdleCatRun /\ reCalls = << >>

\* ListPoll with "continue" in place of "return" when next returns nil
ListPollSkipsNil ==
    /\ ppc = "poll"
    /\ idx <= Len(listing)
    /\ idx' = idx + 1
    /\ IF NextCall(idx + 1) = NilListRes
       THEN UNCHANGED <<r, ppc>>
       ELSE r' = NextCall(idx + 1) /\ ppc' = "lselect"
    /\ UNCHANGED <<args, out, closed, closeCount, ctxDone, recvd, rangeEnded,
                   actionCalls, sentAfterCancel, actionsAfterCancel, notKey>>

\* for { r := next(); if r == nil { return } ...
ListPoll ==
    /\ ppc = "poll"
    /\ idx' = idx + 1
    /\ IF NextCall(idx + 1) = NilListRes
       THEN /\ ReturnAndClose
            /\ UNCHANGED r
       ELSE /\ r' = NextCall(idx + 1)
            /\ ppc' = "lselect"
            /\ UNCHANGED <<closed, closeCount>>
    /\ UNCHANGED <<args, out, ctxDone, recvd, rangeEnded, actionCalls,
                   sentAfterCancel, actionsAfterCancel, notKey>>

\* select { case out <- r: ...
ListSelectSend ==
    /\ ppc = "lselect"
    /\ Send(r)
    /\ ppc' = "poll"
    /\ r' = NoResult
    /\ UNCHANGED <<args, idx, closed, closeCount, ctxDone, recvd, rangeEnded,
                   actionCalls, actionsAfterCancel, notKey>>

\* ListSelectDone with a close(out) of its own before the return
ListSelectDoneClosesTwice ==
    /\ ppc = "lselect"
    /\ ctxDone
    /\ ppc' = "done"
    /\ closed' = TRUE
    /\ closeCount' = closeCount + 2
    /\ r' = NoResult
    /\ UNCHANGED <<args, idx, out, ctxDone, recvd, rangeEnded, actionCalls,
                   sentAfterCancel, actionsAfterCancel, notKey>>

\* ... case <-ctx.Done(): return }
ListSelectDone ==
    /\ ppc = "lselect"
    /\ ctxDone
    /\ ReturnAndClose
    /\ r' = NoResult
    /\ UNCHANGED <<args, idx, out, ctxDone, recvd, rangeEnded, actionCalls,
                   sentAfterCancel, actionsAfterCancel, notKey>>

\* the goroutine of listResToChan
ListProducer ==
    \/ ListPoll
    \/ ListSelectSend
    \/ ListSelectDone

NextList ==
    \/ ListPoll
    \/ ListSelectSend
    \/ ListSelectDone
    \/ Cancel
    \/ Receive
    \/ RangeEnd

SpecList == InitList /\ [][NextList]_vars

(***************************************************************************)
(* dupsFileStore.Run: the goroutine ranges over the channel ch of          *)
(* AllKeysChan, asks the main blockstore for every cid and sends a         *)
(* RefWrapper for the ones it has; both sends are plain sends.  The reader *)
(* of res's output is the consumer.  idx counts the cids taken from ch.    *)
(***************************************************************************)
\* longest sequence of cids enumerated
MaxKeys == 3

\* cids of the filestore: the main blockstore has "K1", does not have "K2",
\* and fails on "K3"
KeyAlphabet == {"K1", "K2", "K3"}

\* fs.MainBlockstore().Has(cid): (have, err)
Has(k) ==
    CASE k = "K1" -> [have |-> TRUE, err |-> Nil]
      [] k = "K2" -> [have |-> FALSE, err |-> Nil]
      [] OTHER -> [have |-> FALSE, err |-> "blockstore: read failed"]

\* &RefWrapper{Ref: ..., Err: ...}
RefWrapper(ref, e) == [Ref |-> ref, Err |-> e]

InitDups ==
    /\ keys \in SeqsUpTo(KeyAlphabet, MaxKeys)
    /\ listing = << >>
    /\ args = << >>
    /\ idx = 0
    /\ ppc = "rangeCh"
    /\ r = NoResult
    /\ out = << >>
    /\ closed = FALSE
    /\ closeCount = 0
    /\ ctxDone = FALSE
    /\ recvd = << >>
    /\ rangeEnded = FALSE
    /\ actionCalls = << >>
    /\ sentAfterCancel = 0
    /\ actionsAfterCancel = 0
    /\ IdleRes /\ IdleRe /\ IdleLs /\ IdlePR /\ IdleCat
    /\ IdleLsRun /\ IdleCatRun /\ reCalls = << >>

\* for cid := range ch { have, err := fs.MainBlockstore().Has(cid) ...
DupsNextKey ==
    /\ ppc = "rangeCh"
    /\ idx < Len(keys)
    /\ idx' = idx + 1
    /\ LET k == keys[idx + 1]
           h == Has(k)
       IN  IF h.err # Nil
           THEN r' = RefWrapper("", h.err) /\ ppc' = "dsendErr"
           ELSE IF h.have
                THEN r' = RefWrapper(k, "") /\ ppc' = "dsendRef"
                ELSE UNCHANGED <<r, ppc>>
    /\ UNCHANGED <<args, out, closed, closeCount, ctxDone, recvd, rangeEnded,
                   actionCalls, sentAfterCancel, actionsAfterCancel, notKey>>

\* out <- &RefWrapper{Err: err.Error()}; return   (the deferred close runs)
DupsSendErr ==
    /\ ppc = "dsendErr"
    /\ Send(r)
    /\ ReturnAndClose
    /\ r' = NoResult
    /\ UNCHANGED <<args, idx, ctxDone, recvd, rangeEnded, actionCalls,
                   actionsAfterCancel, notKey>>

\* out <- &RefWrapper{Ref: cid.String()}
DupsSendRef ==
    /\ ppc = "dsendRef"
    /\ Send(r)
    /\ ppc' = "rangeCh"
    /\ r' = NoResult
    /\ UNCHANGED <<args, idx, closed, closeCount, ctxDone, recvd, rangeEnded,
                   actionCalls, actionsAfterCancel, notKey>>

\* ch is closed and drained: AllKeysChan closes it after the last cid, or
\* earlier once its context is cancelled; the goroutine returns
DupsLoopEnd ==
    /\ ppc = "rangeCh"
    /\ idx = Len(keys) \/ ctxDone
    /\ ReturnAndClose
    /\ UNCHANGED <<args, idx, r, out, ctxDone, recvd, rangeEnded, actionCalls,
                   sentAfterCancel, actionsAfterCancel, notKey>>

NextDups ==
    \/ DupsNextKey
    \/ DupsSendErr
    \/ DupsSendRef
    \/ DupsLoopEnd
    \/ Cancel
    \/ Receive
    \/ RangeEnd

SpecDups == InitDups /\ [][NextDups]_vars

(***************************************************************************)
(* The three producers side by side: a behaviour starts as one of them.    *)
(***************************************************************************)
InitProducers == InitKey \/ InitList \/ InitDups

NextProducers ==
    \/ KeyNextArg
    \/ KeySendErr
    \/ KeySelectSend
    \/ KeySelectDone
    \/ KeyLoopEnd
    \/ ListPoll
    \/ ListSelectSend
    \/ ListSelectDone
    \/ DupsNextKey
    \/ DupsSendErr
    \/ DupsSendRef
    \/ DupsLoopEnd
    \/ Cancel
    \/ Receive
    \/ RangeEnd

SpecProducers == InitProducers /\ [][NextProducers]_vars

(***************************************************************************)
(* perKeyActionToChan and listResToChan under fair scheduling: a goroutine *)
(* that can take a step takes one, and the consumer keeps receiving, until *)
(* its loop has ended.  Cancellation may fire or not.  Every step of a    *)
(* goroutine changes ppc, every receive recvd, and the end of the loop     *)
(* rangeEnded.                                                             *)
(***************************************************************************)
\* the inputs: every short argument list and every short listing, and the
\* argument list that fills the buffer and ends in an unparseable argument
InitKeyList ==
    \/ InitKey /\ (Len(args) <= MaxArgs \/ args = Fill \o <<"bad">>)
    \/ InitList /\ Len(listing) <= MaxList

NextKeyList ==
    \/ KeyNextArg
    \/ KeySendErr
    \/ KeySelectSend
    \/ KeySelectDone
    \/ KeyLoopEnd
    \/ ListPoll
    \/ ListSelectSend
    \/ ListSelectDone
    \/ Cancel
    \/ Receive
    \/ RangeEnd

FairKeyList ==
    /\ InitKeyList
    /\ [][NextKeyList]_vars
    /\ WF_ppc(KeyProducer)
    /\ WF_ppc(ListProducer)
    /\ WF_recvd(Receive)
    /\ WF_rangeEnded(RangeEnd)


(***************************************************************************)
(* lsFileStore.PostRun: the goroutine that reads res and writes the        *)
(* records to stdout, the diagnostics to stderr and the outcome to re.     *)
(***************************************************************************)
\* longest response stream explored
MaxStream == 3

\* r.FormatLong(): "<hash> <size> <path> <offset>"
FormatLong(res) == <<res.Key[2], res.Size, res.FilePath, res.Offset>>

\* the values a stream may hold: an intact entry, an entry with ErrorMsg
\* set by the action, the error result of an unparseable argument, and a
\* value that is no *filestore.ListRes
ListResValues ==
    {[type |-> ListResType, val |-> Action(Decode("A").c)],
     [type |-> ListResType, val |-> Action(Decode("B").c)],
     [type |-> ListResType,
      val |-> ParseErrorRes("bad", Decode("bad").err)]}
OtherValue == [type |-> "string", val |-> "text"]

\* what res.Error() holds once the remote has sent an error
RemoteErrors ==
    {[Message |-> <<"no such entry">>, Code |-> ErrNormal],
     [Message |-> <<"bad request">>, Code |-> ErrClient]}

InitRes(values) ==
    /\ stream \in SeqsUpTo(values, MaxStream)
    /\ streamEnd \in EndErrors
    /\ remoteErr \in (IF streamEnd = ErrRcvdError THEN RemoteErrors ELSE {NoError})
    /\ pulls = 0

InitLs ==
    /\ InitRes(ListResValues \cup {OtherValue})
    /\ length = <<0, 0, 0, 0>>
    /\ lpc = "next"
    /\ v = NilValue
    /\ err = Nil
    /\ errors = FALSE
    /\ printed = << >>
    /\ IdleRe /\ IdleKey /\ IdlePR /\ IdleCat /\ IdleMore

\* re.SetError(msg, code)
SetError(msg, code) ==
    setErrors' = Append(setErrors, [msg |-> msg, code |-> code])

\* re.Close()
CloseRe == reCloseCount' = reCloseCount + 1

\* v, err = res.Next(); if err != nil { break }
\* Next blocks until res has a value or has come to its end
LsNext ==
    /\ lpc = "next"
    /\ pulls < Len(stream) \/ streamEnd # Nil
    /\ pulls' = pulls + 1
    /\ IF pulls < Len(stream)
       THEN /\ v' = stream[pulls + 1]
            /\ err' = Nil
            /\ lpc' = "handle"
       ELSE /\ v' = NilValue
            /\ err' = streamEnd
            /\ lpc' = "classify"
    /\ UNCHANGED <<stream, streamEnd, remoteErr, length, errors, printed,
                   reVars, keyVars, prVars, catVars,
                   moreVars, reCalls>>

\* LsHandle that stops pulling at the first result with an ErrorMsg
LsHandleStopOnSoft ==
    /\ lpc = "handle"
    /\ IF v.type # ListResType
       THEN /\ lpc' = "panicked"
            /\ CloseRe
            /\ UNCHANGED <<errors, printed>>
       ELSE /\ IF v.val.ErrorMsg # EmptyMsg
               THEN /\ errors' = TRUE
                    /\ printed' = Append(printed,
                           [fd |-> "stderr", line |-> v.val.ErrorMsg])
                    /\ lpc' = "errors"
               ELSE /\ errors' = errors
                    /\ printed' = Append(printed,
                           [fd |-> "stdout", line |-> FormatLong(v.val)])
                    /\ lpc' = "next"
            /\ UNCHANGED reCloseCount
    /\ UNCHANGED <<v, err, resVars, setErrors, emitted,
                   keyVars, prVars, catVars,
                   moreVars, reCalls>>

\* r := v.(*filestore.ListRes); if r.ErrorMsg != "" {...} else {...}
\* The assertion panics on any other type; the deferred re.Close() runs
\* while the goroutine unwinds.
LsHandle ==
    /\ lpc = "handle"
    /\ IF v.type # ListResType
       THEN /\ lpc' = "panicked"
            /\ CloseRe
            /\ UNCHANGED <<errors, printed>>
       ELSE /\ IF v.val.ErrorMsg # EmptyMsg
               THEN /\ errors' = TRUE
                    /\ printed' = Append(printed,
                           [fd |-> "stderr", line |-> v.val.ErrorMsg])
               ELSE /\ errors' = errors
                    /\ printed' = Append(printed,
                           [fd |-> "stdout", line |-> FormatLong(v.val)])
            /\ lpc' = "next"
            /\ UNCHANGED reCloseCount
    /\ UNCHANGED <<v, err, resVars, setErrors, emitted,
                   keyVars, prVars, catVars,
                   moreVars, reCalls>>

\* if err == io.EOF || err.Error() == "EOF" {} else if err == ErrRcvdError
\* { e := res.Error(); re.SetError(e.Message, e.Code) }
\* else { re.SetError(err, cmdsutil.ErrNormal) }
LsClassify ==
    /\ lpc = "classify"
    /\ IF err = ioEOF \/ ErrorText(err) = "EOF"
       THEN UNCHANGED setErrors
       ELSE IF err = ErrRcvdError
            THEN SetError(remoteErr.Message, remoteErr.Code)
            ELSE SetError(<<ErrorText(err)>>, ErrNormal)
    /\ lpc' = "errors"
    /\ UNCHANGED <<v, err, errors, printed, resVars, emitted, reCloseCount,
                   keyVars, prVars, catVars,
                   moreVars, reCalls>>

AggregateMsg == <<"errors while displaying some entries">>

\* LsErrors without the test of errors
LsErrorsAlways ==
    /\ lpc = "errors"
    /\ SetError(AggregateMsg, ErrNormal)
    /\ CloseRe
    /\ lpc' = "done"
    /\ UNCHANGED <<v, err, errors, printed, resVars, emitted,
                   keyVars, prVars, catVars,
                   moreVars, reCalls>>

\* if errors { re.SetError("errors while ...", cmdsutil.ErrNormal) }
\* and the goroutine returns: the deferred re.Close() runs
LsErrors ==
    /\ lpc = "errors"
    /\ IF errors
       THEN SetError(AggregateMsg, ErrNormal)
       ELSE UNCHANGED setErrors
    /\ CloseRe
    /\ lpc' = "done"
    /\ UNCHANGED <<v, err, errors, printed, resVars, emitted,
                   keyVars, prVars, catVars,
                   moreVars, reCalls>>

NextLs ==
    \/ LsNext
    \/ LsHandle
    \/ LsClassify
    \/ LsErrors

SpecLs == InitLs /\ [][NextLs]_vars

(***************************************************************************)
(* "filestore ls" from end to end: lsFileStore.Run starts one of the two   *)
(* producers and emits what it receives from out on its emitter; the pair  *)
(* of cmds.NewChanResponsePair carries the emitted values, in order, to    *)
(* res, from which the PostRun goroutine pulls.  recvd holds the values    *)
(* Run has emitted.  When Run has returned, res comes to its end: with     *)
(* ErrRcvdError if Run has set an error, with io.EOF otherwise.            *)
(***************************************************************************)
InitLsRun ==
    /\ args \in SeqsUpTo(ArgAlphabet, MaxArgs)
    /\ listing \in (IF args = << >> THEN SeqsUpTo(NextAnswers, MaxList)
                    ELSE {<< >>})
    /\ keys = << >>
    /\ fsErr \in {Nil, "filestore not enabled"}
    /\ listAllErr \in (IF args = << >> THEN {Nil, "datastore: query failed"}
                       ELSE {Nil})
    /\ lrpc = "start"
    /\ runErrors = << >>
    /\ idx = 0
    /\ ppc = "notStarted"
    /\ r = NoResult
    /\ out = << >>
    /\ closed = FALSE
    /\ closeCount = 0
    /\ ctxDone = FALSE
    /\ recvd = << >>
    /\ rangeEnded = FALSE
    /\ actionCalls = << >>
    /\ sentAfterCancel = 0
    /\ actionsAfterCancel = 0
    /\ stream = << >>
    /\ streamEnd = Nil
    /\ remoteErr = NoError
    /\ length = Zero64
    /\ pulls = 0
    /\ lpc = "next"
    /\ v = NilValue
    /\ err = Nil
    /\ errors = FALSE
    /\ printed = << >>
    /\ IdleRe /\ IdlePR /\ IdleCat /\ IdleCatRun /\ reCalls = << >>

\* _, fs, err := getFilestore(...); if err != nil { re.SetError(...); return }
\* if len(args) > 0 { out := perKeyActionToChan(...) ... } else {
\*   next, err := filestore.ListAll(fs)
\*   if err != nil { re.SetError(...); return }
\*   out := listResToChan(next, req.Context()) ... }
RunStart ==
    /\ lrpc = "start"
    /\ IF fsErr # Nil
       THEN /\ runErrors' = Append(runErrors, [msg |-> <<fsErr>>, code |-> ErrNormal])
            /\ lrpc' = "returned"
            /\ UNCHANGED ppc
       ELSE IF Len(args) > 0
            THEN /\ ppc' = "range"
                 /\ lrpc' = "loop"
                 /\ UNCHANGED runErrors
            ELSE IF listAllErr # Nil
                 THEN /\ runErrors' = Append(runErrors,
                                [msg |-> <<listAllErr>>, code |-> ErrNormal])
                      /\ lrpc' = "returned"
                      /\ UNCHANGED ppc
                 ELSE /\ ppc' = "poll"
                      /\ lrpc' = "loop"
                      /\ UNCHANGED runErrors
    /\ UNCHANGED <<args, idx, r, out, closed, closeCount, ctxDone, recvd,
                   rangeEnded, actionCalls, sentAfterCancel,
                   actionsAfterCancel, resVars, reVars, lsVars, prVars,
                   catVars, prodVars, fsErr, listAllErr, catRunVars, reCalls>>

\* the pair hands the next value Run has emitted to res
PairDeliver ==
    /\ Len(stream) < Len(recvd)
    /\ stream' = Append(stream, [type |-> ListResType,
                                 val |-> recvd[Len(stream) + 1]])
    /\ UNCHANGED <<streamEnd, remoteErr, length, pulls, keyVars, reVars,
                   lsVars, prVars, catVars, moreVars, reCalls>>

\* Run has returned and everything it emitted has been handed over: res
\* ends, with the error Run has set if it has set one
PairEnd ==
    /\ streamEnd = Nil
    /\ rangeEnded \/ lrpc = "returned"
    /\ Len(stream) = Len(recvd)
    /\ IF runErrors # << >>
       THEN /\ streamEnd' = ErrRcvdError
            /\ remoteErr' = [Message |-> runErrors[Len(runErrors)].msg,
                             Code |-> runErrors[Len(runErrors)].code]
       ELSE /\ streamEnd' = ioEOF
            /\ UNCHANGED remoteErr
    /\ UNCHANGED <<stream, length, pulls, keyVars, reVars, lsVars, prVars,
                   catVars, moreVars, reCalls>>

NextLsRun ==
    \/ RunStart
    \/ KeyNextArg
    \/ KeySendErr
    \/ KeySelectSend
    \/ KeySelectDone
    \/ KeyLoopEnd
    \/ ListPoll
    \/ ListSelectSend
    \/ ListSelectDone
    \/ Cancel
    \/ Receive
    \/ RangeEnd
    \/ PairDeliver
    \/ PairEnd
    \/ LsNext
    \/ LsHandle
    \/ LsClassify
    \/ LsErrors

SpecLsRun == InitLsRun /\ [][NextLsRun]_vars

(***************************************************************************)
(* CatCmd.PostRun: the goroutine that either copies res to re directly or  *)
(* wraps the reader in a progress bar before emitting it.                  *)
(***************************************************************************)
\* const progressBarMinSize = 1024 * 1024 * 8
progressBarMinSize == 1024 * 1024 * 8

\* the values of res.Length() explored
Lengths ==
    {U64(n) : n \in {0, 1, 7 * 1024 * 1024, progressBarMinSize - 1,
                     progressBarMinSize, progressBarMinSize + 1,
                     9 * 1024 * 1024}}
    \cup {TwoTo63, MaxUint64}

\* the value CatCmd.Run emits: io.MultiReader(readers...)
ReaderValue == [type |-> ReaderType, val |-> "multiReader"]

InitCatPR ==
    /\ InitRes({ReaderValue, OtherValue})
    /\ length \in Lengths
    /\ copyFails \in BOOLEAN
    /\ cpc = "start"
    /\ plan = Nil
    /\ bar = NoBar
    /\ reader = NilValue
    /\ v = NilValue
    /\ catLog = << >>
    /\ IdleRe /\ IdleKey /\ IdleCat /\ IdleMore
    /\ lpc = "done" /\ err = Nil /\ errors = FALSE /\ printed = << >>

\* DirectCopy with <= in place of <
DirectCopyInclusive(len) ==
    /\ Less64(Zero64, len)
    /\ Less64(len, U64(progressBarMinSize)) \/ len = U64(progressBarMinSize)

\* res.Length() > 0 && res.Length() < progressBarMinSize
DirectCopy(len) == Less64(Zero64, len) /\ Less64(len, U64(progressBarMinSize))

\* PRDecide after a res.Next() of its own
PRDecidePullsFirst ==
    /\ cpc = "start"
    /\ pulls' = pulls + 1
    /\ IF DirectCopy(length)
       THEN plan' = "direct" /\ cpc' = "copy"
       ELSE plan' = "progress" /\ cpc' = "next"
    /\ UNCHANGED <<copyFails, bar, reader, catLog, v, stream, streamEnd,
                   remoteErr, length, reVars,
                   lpc, err, errors, printed, keyVars, catVars,
                   moreVars, reCalls>>

\* if res.Length() > 0 && res.Length() < progressBarMinSize {...}
PRDecide ==
    /\ cpc = "start"
    /\ IF DirectCopy(length)
       THEN plan' = "direct" /\ cpc' = "copy"
       ELSE plan' = "progress" /\ cpc' = "next"
    /\ UNCHANGED <<copyFails, bar, reader, catLog, v, resVars, reVars,
                   lpc, err, errors, printed, keyVars, catVars,
                   moreVars, reCalls>>

\* if err := cmds.Copy(re, res); err != nil { re.SetError(err, ErrNormal) }
\* return
\* Copy hands every value of res to re and closes re when res is at its
\* end; whether it has closed re when it returns an error is not known here.
PRCopy ==
    /\ cpc = "copy"
    /\ IF copyFails
       THEN /\ SetError(<<"copy failed">>, ErrNormal)
            /\ \E n \in {0, 1} :
                  /\ reCloseCount' = reCloseCount + n
                  /\ reCalls' = reCalls
                                 \o (IF n = 1 THEN <<"Close">> ELSE << >>)
                                 \o <<"SetError">>
            /\ UNCHANGED emitted
       ELSE /\ emitted' = emitted \o stream
            /\ CloseRe
            /\ reCalls' = reCalls \o [k \in 1..Len(stream) |-> "Emit"]
                                  \o <<"Close">>
            /\ UNCHANGED setErrors
    /\ catLog' = Append(catLog, "Copy")
    /\ cpc' = "done"
    /\ UNCHANGED <<copyFails, plan, bar, reader, v, resVars,
                   lpc, err, errors, printed, keyVars, catVars,
                   moreVars>>

\* fmt.Sprint of res.Error()
SprintError(e) == e.Message

\* defer re.Close(); v, err := res.Next(); if err != nil { ...; return }
PRNext ==
    /\ cpc = "next"
    /\ pulls' = pulls + 1
    /\ IF pulls < Len(stream)
       THEN /\ v' = stream[pulls + 1]
            /\ cpc' = "cast"
            /\ catLog' = Append(catLog, "Next")
            /\ UNCHANGED <<setErrors, reCloseCount, reCalls>>
       ELSE /\ v' = NilValue
            /\ IF streamEnd = ErrRcvdError
               THEN SetError(remoteErr.Message, remoteErr.Code)
               ELSE SetError(SprintError(remoteErr), ErrNormal)
            /\ CloseRe
            /\ reCalls' = reCalls \o <<"SetError", "Close">>
            /\ cpc' = "done"
            /\ catLog' = catLog \o <<"Next", "Close">>
    /\ UNCHANGED <<copyFails, plan, bar, reader, stream, streamEnd, remoteErr,
                   length, emitted, lpc, err, errors, printed, keyVars, catVars,
                   moreVars>>

\* r, ok := v.(io.Reader); if !ok { re.SetError(...); return }
PRCast ==
    /\ cpc = "cast"
    /\ IF v.type # ReaderType
       THEN /\ SetError(<<"expected io.Reader, not ", v.type>>, ErrNormal)
            /\ CloseRe
            /\ reCalls' = reCalls \o <<"SetError", "Close">>
            /\ cpc' = "done"
            /\ catLog' = Append(catLog, "Close")
       ELSE /\ cpc' = "bar"
            /\ UNCHANGED <<setErrors, reCloseCount, catLog, reCalls>>
    /\ UNCHANGED <<copyFails, plan, bar, reader, v, resVars, emitted,
                   lpc, err, errors, printed, keyVars, catVars,
                   moreVars>>

\* PRBar without bar.Start()
PRBarNotStarted ==
    /\ cpc = "bar"
    /\ bar' = [total |-> ToInt64(length), started |-> FALSE]
    /\ reader' = [type |-> ReaderType, val |-> "barReader"]
    /\ catLog' = catLog \o <<"progressBarForReader">>
    /\ cpc' = "emit"
    /\ UNCHANGED <<copyFails, plan, v, resVars, reVars,
                   lpc, err, errors, printed, keyVars, catVars,
                   moreVars, reCalls>>

\* bar, reader := progressBarForReader(os.Stderr, r, int64(res.Length()))
\* bar.Start()
PRBar ==
    /\ cpc = "bar"
    /\ bar' = [total |-> ToInt64(length), started |-> TRUE]
    /\ reader' = [type |-> ReaderType, val |-> "barReader"]
    /\ catLog' = catLog \o <<"progressBarForReader", "Start">>
    /\ cpc' = "emit"
    /\ UNCHANGED <<copyFails, plan, v, resVars, reVars,
                   lpc, err, errors, printed, keyVars, catVars,
                   moreVars, reCalls>>

\* re.Emit(reader) and the goroutine returns: the deferred re.Close() runs
PREmit ==
    /\ cpc = "emit"
    /\ emitted' = Append(emitted, reader)
    /\ CloseRe
    /\ reCalls' = reCalls \o <<"Emit", "Close">>
    /\ catLog' = catLog \o <<"Emit", "Close">>
    /\ cpc' = "done"
    /\ UNCHANGED <<copyFails, plan, bar, reader, v, resVars, setErrors,
                   lpc, err, errors, printed, keyVars, catVars,
                   moreVars>>

NextCatPR ==
    \/ PRDecide
    \/ PRCopy
    \/ PRNext
    \/ PRCast
    \/ PRBar
    \/ PREmit

SpecCatPR == InitCatPR /\ [][NextCatPR]_vars

(***************************************************************************)
(* cat: one coreunix.Cat lookup per path, the readers and their summed     *)
(* sizes.                                                                  *)
(***************************************************************************)
\* longest path list explored
MaxPaths == 3

PathAlphabet == {"p1", "p2", "pbig", "px", "py"}

\* coreunix.Cat(ctx, node, fpath): (read, err); read.Size() is read.size
CoreunixCat(fpath) ==
    CASE fpath = "p1" -> [read |-> [name |-> "r1", size |-> U64(10)], err |-> Nil]
      [] fpath = "p2" -> [read |-> [name |-> "r2", size |-> U64(20)], err |-> Nil]
      [] fpath = "pbig" -> [read |-> [name |-> "rbig", size |-> TwoTo63], err |-> Nil]
      [] fpath = "px" -> [read |-> [name |-> Nil, size |-> Zero64],
                          err |-> "merkledag: not found"]
      [] OTHER -> [read |-> [name |-> Nil, size |-> Zero64],
                   err |-> "context deadline exceeded"]

InitCat ==
    /\ paths \in SeqsUpTo(PathAlphabet, MaxPaths)
    /\ catpc = "range"
    /\ pathIdx = 0
    /\ readers = << >>
    /\ catLength = Zero64
    /\ lookups = << >>
    /\ catRet = NoReturn
    /\ IdleKey /\ IdleRes /\ IdleRe /\ IdleLs /\ IdlePR /\ IdleMore

\* CatNextPath with "continue" in place of "return nil, 0, err"
CatNextPathSkipFailed ==
    /\ catpc = "range"
    /\ pathIdx < Len(paths)
    /\ LET fpath == paths[pathIdx + 1]
           got   == CoreunixCat(fpath)
       IN  /\ lookups' = Append(lookups, fpath)
           /\ pathIdx' = pathIdx + 1
           /\ IF got.err # Nil
              THEN UNCHANGED <<readers, catLength, catRet, catpc>>
              ELSE /\ readers' = Append(readers, got.read)
                   /\ catLength' = Add64(catLength, got.read.size)
                   /\ UNCHANGED <<catRet, catpc>>
    /\ UNCHANGED <<paths, keyVars, resVars, reVars, lsVars, prVars,
                   moreVars, reCalls>>

\* for _, fpath := range paths { read, err := coreunix.Cat(ctx, node, fpath)
\*   if err != nil { return nil, 0, err }
\*   readers = append(readers, read); length += uint64(read.Size()) }
CatNextPath ==
    /\ catpc = "range"
    /\ pathIdx < Len(paths)
    /\ LET fpath == paths[pathIdx + 1]
           got   == CoreunixCat(fpath)
       IN  /\ lookups' = Append(lookups, fpath)
           /\ pathIdx' = pathIdx + 1
           /\ IF got.err # Nil
              THEN /\ catRet' = [readers |-> << >>, length |-> Zero64, err |-> got.err]
                   /\ catpc' = "returned"
                   /\ UNCHANGED <<readers, catLength>>
              ELSE /\ readers' = Append(readers, got.read)
                   /\ catLength' = Add64(catLength, got.read.size)
                   /\ UNCHANGED <<catRet, catpc>>
    /\ UNCHANGED <<paths, keyVars, resVars, reVars, lsVars, prVars,
                   moreVars, reCalls>>

\* return readers, length, nil
CatReturn ==
    /\ catpc = "range"
    /\ pathIdx = Len(paths)
    /\ catRet' = [readers |-> readers, length |-> catLength, err |-> Nil]
    /\ catpc' = "returned"
    /\ UNCHANGED <<paths, pathIdx, readers, catLength, lookups,
                   keyVars, resVars, reVars, lsVars, prVars,
                   moreVars, reCalls>>

NextCat ==
    \/ CatNextPath
    \/ CatReturn

SpecCat == InitCat /\ [][NextCat]_vars

(***************************************************************************)
(* CatCmd.Run: GetNode, offline routing, the call of cat, and the answer   *)
(* written to re (reVars hold the calls Run makes on its emitter).         *)
(***************************************************************************)
\* io.MultiReader(readers...): the readers, read one after the other
MultiReader(rs) == [type |-> ReaderType, val |-> rs]

InitCatRun ==
    /\ paths \in SeqsUpTo(PathAlphabet, MaxPaths)
    /\ catpc = "notCalled"
    /\ pathIdx = 0
    /\ readers = << >>
    /\ catLength = Zero64
    /\ lookups = << >>
    /\ catRet = NoReturn
    /\ crpc = "start"
    /\ nodeErr \in {Nil, "node construction failed"}
    /\ online \in BOOLEAN
    /\ offlineErr \in (IF online THEN {Nil} ELSE {Nil, "offline routing failed"})
    /\ emitErr \in {Nil, "emit failed"}
    /\ reLength = << >>
    /\ IdleKey /\ IdleRes /\ IdleRe /\ IdleLs /\ IdlePR
    /\ IdleProd /\ IdleLsRun /\ reCalls = << >>

\* node, err := req.InvocContext().GetNode()
\* if err != nil { re.SetError(err, cmdsutil.ErrNormal); return }
RunGetNode ==
    /\ crpc = "start"
    /\ IF nodeErr # Nil
       THEN SetError(<<nodeErr>>, ErrNormal) /\ crpc' = "returned"
       ELSE UNCHANGED setErrors /\ crpc' = "offline"
    /\ UNCHANGED <<nodeErr, online, offlineErr, emitErr, reLength, emitted,
                   reCloseCount, catVars, keyVars, resVars, lsVars, prVars,
                   prodVars, lsRunVars, reCalls>>

\* if !node.OnlineMode() { if err := node.SetupOfflineRouting(); err != nil
\*   { re.SetError(err, cmdsutil.ErrNormal); return } }
\* and the call cat(req.Context(), node, req.Arguments())
RunOfflineRouting ==
    /\ crpc = "offline"
    /\ IF ~online /\ offlineErr # Nil
       THEN /\ SetError(<<offlineErr>>, ErrNormal)
            /\ crpc' = "returned"
            /\ UNCHANGED catpc
       ELSE /\ crpc' = "cat"
            /\ catpc' = "range"
            /\ UNCHANGED setErrors
    /\ UNCHANGED <<nodeErr, online, offlineErr, emitErr, reLength, emitted,
                   reCloseCount, paths, pathIdx, readers, catLength, lookups,
                   catRet, keyVars, resVars, lsVars, prVars,
                   prodVars, lsRunVars, reCalls>>

\* if err != nil { re.SetError(err, cmdsutil.ErrNormal); return }
\* re.SetLength(length); reader := io.MultiReader(readers...)
\* err = re.Emit(reader); if err != nil { re.SetError(...) }; re.Close()
RunAnswer ==
    /\ crpc = "cat"
    /\ catpc = "returned"
    /\ IF catRet.err # Nil
       THEN /\ SetError(<<catRet.err>>, ErrNormal)
            /\ UNCHANGED <<reLength, emitted, reCloseCount>>
       ELSE /\ reLength' = Append(reLength, catRet.length)
            /\ emitted' = Append(emitted, MultiReader(catRet.readers))
            /\ IF emitErr # Nil
               THEN SetError(<<emitErr>>, ErrNormal)
               ELSE UNCHANGED setErrors
            /\ CloseRe
    /\ crpc' = "returned"
    /\ UNCHANGED <<nodeErr, online, offlineErr, emitErr, catVars, keyVars,
                   resVars, lsVars, prVars, prodVars, lsRunVars, reCalls>>

NextCatRun ==
    \/ RunGetNode
    \/ RunOfflineRouting
    \/ CatNextPath
    \/ CatReturn
    \/ RunAnswer

SpecCatRun == InitCatRun /\ [][NextCatRun]_vars

(***************************************************************************)
(* Properties of perKeyActionToChan.                                       *)
(***************************************************************************)
\* the result perKeyActionToChan owes for one argument
ResultFor(arg) ==
    IF Decode(arg).err # Nil
    THEN ParseErrorRes(arg, Decode(arg).err)
    ELSE Action(Decode(arg).c)

\* everything sent on out so far, in the order sent
sent == recvd \o out

\* arg decodes to a cid
IsCid(arg) == Decode(arg).err = Nil

\* the cids among the first n arguments, in order
CidsOf(as, n) ==
    LET valid == SelectSeq(SubSeq(as, 1, n), IsCid)
    IN  [k \in 1..Len(valid) |-> Decode(valid[k]).c]

\* C1: the results received from out are, position by position, the results
\* of the corresponding arguments (action result for a parseable argument,
\* synthetic error result for an unparseable one); what has been received is
\* always a prefix of that sequence, and it is the whole sequence once the
\* consumer's loop has ended without cancellation.
C1_OrderPreserved ==
    /\ Len(recvd) <= Len(args)
    /\ \A k \in 1..Len(recvd) : recvd[k] = ResultFor(args[k])
    /\ (rangeEnded /\ ~ctxDone) => Len(recvd) = Len(args)

\* C1 witness: [A, bad, B] has been delivered completely, without cancellation
C1_Witness ==
    /\ args = <<"A", "bad", "B">>
    /\ rangeEnded
    /\ ~ctxDone
    /\ Len(recvd) = 3

\* C2: an argument that fails to parse yields exactly one error result that
\* carries the argument and the parse error, the action is not invoked for
\* it (the action has been invoked exactly for the parseable arguments
\* taken so far), and the producer never ends the batch at such an argument:
\* it stops before the end of args only at a parseable argument (by the
\* select's cancellation case).
C2_ParseFailure ==
    /\ actionCalls = CidsOf(args, idx)
    /\ (ppc = "range") => Len(sent) = idx
    /\ (ppc = "sendErr") =>
           /\ Len(sent) = idx - 1
           /\ r = ParseErrorRes(args[idx], Decode(args[idx]).err)
    /\ \A k \in 1..Len(sent) :
           Decode(args[k]).err # Nil =>
               /\ sent[k].Status = StatusOtherError
               /\ sent[k].ErrorMsg = <<args[k], ": ", Decode(args[k]).err>>
    /\ (ppc = "done" /\ idx < Len(args)) =>
           /\ idx > 0
           /\ Decode(args[idx]).err = Nil

\* C2 witness: after the unparseable first argument the second was processed
C2_Witness ==
    /\ args = <<"bad", "A">>
    /\ ppc = "done"
    /\ Len(sent) = 2
    /\ actionCalls = <<Decode("A").c>>

\* C3: once the cancellation has fired the producer is never blocked: until
\* it has returned (and closed out) it always has a step it can take, also
\* when the buffer is full and nothing is received.
C3_NeverBlockedAfterCancel ==
    (ctxDone /\ ppc # "done") => ENABLED KeyProducer

\* C4: at most one further result is placed on out after the cancellation
\* has fired.
C4_AtMostOneSendAfterCancel ==
    sentAfterCancel <= 1

(***************************************************************************)
(* Properties of lsFileStore.PostRun.                                      *)
(***************************************************************************)
\* res.Next() ended the stream with end-of-data
EndOfData == ErrorText(streamEnd) = "EOF"

\* the line owed for one result: its ErrorMsg on stderr when that is set,
\* its long format on stdout otherwise
LineFor(x) ==
    IF x.val.ErrorMsg # EmptyMsg
    THEN [fd |-> "stderr", line |-> x.val.ErrorMsg]
    ELSE [fd |-> "stdout", line |-> FormatLong(x.val)]

SoftFailureAt(k) == stream[k].val.ErrorMsg # EmptyMsg

\* C5: when a stream of M results ends with end-of-data, the goroutine has
\* pulled all M of them (M + 1 calls of Next) and has written exactly one
\* line per result, in stream order: the ErrorMsg of a result that has one,
\* the record of any other result.  A soft failure does not stop it.
C5_AllResultsHandled ==
    (lpc = "done" /\ EndOfData) =>
        /\ pulls = Len(stream) + 1
        /\ printed = [k \in 1..Len(stream) |-> LineFor(stream[k])]

\* C5 witness: a soft failure came first and two records followed it
C5_Witness ==
    /\ lpc = "done"
    /\ EndOfData
    /\ Len(stream) = 3
    /\ SoftFailureAt(1)
    /\ ~SoftFailureAt(2)
    /\ ~SoftFailureAt(3)
    /\ Len(printed) = 3
    /\ printed[3].fd = "stdout"

\* C6: after end-of-data the goroutine has set the error "errors while
\* displaying some entries" with code ErrNormal if some pulled result had a
\* non-empty ErrorMsg, and has set no error otherwise; re is closed (once).
C6_AggregateWarning ==
    (lpc = "done" /\ EndOfData) =>
        /\ setErrors =
               IF \E k \in 1..Len(stream) : SoftFailureAt(k)
               THEN <<[msg |-> AggregateMsg, code |-> ErrNormal]>>
               ELSE << >>
        /\ reCloseCount = 1

\* C6 witness: one record was printed, one diagnostic, and the warning is set
C6_Witness ==
    /\ lpc = "done"
    /\ EndOfData
    /\ \E k \in 1..Len(printed) : printed[k].fd = "stdout"
    /\ \E k \in 1..Len(printed) : printed[k].fd = "stderr"
    /\ setErrors = <<[msg |-> AggregateMsg, code |-> ErrNormal]>>
    /\ reCloseCount = 1

\* C7: when Next fails with something other than end-of-data, the error
\* re holds in the end (the last one set) is the remote's message and code
\* for ErrRcvdError and the pull error with code ErrNormal otherwise,
\* whatever was pulled before.
C7_TransportErrorReported ==
    (lpc = "done" /\ ~EndOfData) =>
        /\ pulls = Len(stream) + 1
        /\ setErrors # << >>
        /\ setErrors[Len(setErrors)] =
               IF streamEnd = ErrRcvdError
               THEN [msg |-> remoteErr.Message, code |-> remoteErr.Code]
               ELSE [msg |-> <<ErrorText(streamEnd)>>, code |-> ErrNormal]

(***************************************************************************)
(* Properties of CatCmd.PostRun.                                           *)
(***************************************************************************)
\* the goroutine took the direct copy: cmds.Copy and nothing else
TookDirectCopy ==
    /\ plan = "direct"
    /\ catLog = <<"Copy">>
    /\ pulls = 0
    /\ ~bar.started

\* the goroutine took the progress path: it pulled with Next, never copied
TookProgressPath ==
    /\ plan = "progress"
    /\ catLog # << >>
    /\ catLog[1] = "Next"
    /\ \A k \in 1..Len(catLog) : catLog[k] # "Copy"

\* C8: with a declared length of 0 the goroutine takes the direct copy: it
\* does not call Next, creates and starts no progress bar, and copies res to
\* re.
C8_ZeroLengthDirectCopy ==
    (cpc = "done" /\ length = Zero64) => TookDirectCopy

FailingPaths == {k \in 1..Len(paths) : CoreunixCat(paths[k]).err # Nil}

FirstFailing == CHOOSE k \in FailingPaths : \A j \in FailingPaths : k <= j

\* C10: the lookups are made in input order; when some lookup fails, cat
\* returns the error of the first failing path with no readers and length
\* 0, and has looked up no later path; when none fails it returns no error.
C10_FailFast ==
    /\ lookups = SubSeq(paths, 1, pathIdx)
    /\ catpc = "returned" =>
           IF FailingPaths # {}
           THEN /\ catRet.err = CoreunixCat(paths[FirstFailing]).err
                /\ catRet.readers = << >>
                /\ catRet.length = Zero64
                /\ lookups = SubSeq(paths, 1, FirstFailing)
           ELSE /\ catRet.err = Nil
                /\ lookups = paths

\* C10 witness: the second of three paths failed, the third was not tried
C10_Witness ==
    /\ catpc = "returned"
    /\ paths = <<"p1", "px", "py">>
    /\ catRet.err = "merkledag: not found"
    /\ lookups = <<"p1", "px">>
    /\ catLength = U64(10)

(***************************************************************************)
(* CatCmd.Run and cat: the readers, the announced length, the bytes.       *)
(***************************************************************************)
\* a natural number of five limbs: the top limb holds what a uint64 loses
Wide(x) == x \o <<0>>

\* x + y of two five-limb numbers, without loss
AddWide(x, y) ==
    LET s1 == x[1] + y[1]
        s2 == x[2] + y[2] + (s1 \div Limb)
        s3 == x[3] + y[3] + (s2 \div Limb)
        s4 == x[4] + y[4] + (s3 \div Limb)
    IN  <<s1 % Limb, s2 % Limb, s3 % Limb, s4 % Limb,
          x[5] + y[5] + (s4 \div Limb)>>

\* the sum of the declared sizes of the first n readers of rs, as a natural
\* number
RECURSIVE SumSizes(_, _)
SumSizes(rs, n) ==
    IF n = 0 THEN Wide(Zero64)
    ELSE AddWide(SumSizes(rs, n - 1), Wide(rs[n].size))

\* the number of bytes a multi-reader yields: each of its readers yields as
\* many bytes as its Size() declares
ByteCount(x) == SumSizes(x.val, Len(x.val))

\* C11: when every lookup succeeds, cat returns one reader per path, in the
\* order of the paths, and a length equal to the exact sum of the readers'
\* declared sizes; and the stream Run emits has as many bytes as the length
\* Run passed to SetLength.
C11_ExactLength ==
    (crpc = "returned" /\ catpc = "returned" /\ FailingPaths = {}) =>
        /\ catRet.err = Nil
        /\ Len(catRet.readers) = Len(paths)
        /\ \A k \in 1..Len(paths) :
              catRet.readers[k] = CoreunixCat(paths[k]).read
        /\ Wide(catRet.length) = SumSizes(catRet.readers, Len(paths))
        /\ Len(reLength) = 1 /\ Len(emitted) = 1
        /\ ByteCount(emitted[1]) = Wide(reLength[1])

(***************************************************************************)
(* The producers and their channel.                                        *)
(***************************************************************************)
\* the behaviour is one of perKeyActionToChan or of listResToChan
KeyOrList == keys = << >>

\* C13 (amended): the channel never holds more than 128 results, and the
\* producer is never more than one result ahead of it: the arguments taken
\* (perKeyActionToChan) or the calls of next made (listResToChan), and with
\* them the actions invoked, number at most the results received plus the
\* 128 that fit the buffer plus the one the producer holds while blocked.
C13_Backpressure ==
    /\ Len(out) <= ChanCap
    /\ KeyOrList => idx <= Len(recvd) + Len(out) + 1
    /\ KeyOrList => idx <= Len(recvd) + ChanCap + 1
    /\ Len(actionCalls) <= Len(recvd) + ChanCap + 1

\* the buffer is full, nothing has been received, and the producer holds
\* the result of one more action, blocked on its send
C13_Witness ==
    /\ Len(out) = ChanCap
    /\ recvd = << >>
    /\ ppc = "select"
    /\ Len(actionCalls) = ChanCap + 1
    /\ ~ctxDone

\* C13 (as claimed): while the buffer holds 128 results and cancellation
\* has not fired, the producer invokes no further action and polls the pull
\* function no further.
C13_NoActionWhileFull ==
    [][(Len(out) = ChanCap /\ ~ctxDone) =>
          (actionCalls' = actionCalls /\ idx' = idx)]_vars

\* the calls of next that return nil
NilCalls == {k \in 1..(Len(listing) + 1) : NextCall(k) = NilListRes}

\* the number of the first call of next that returns nil
FirstNil == CHOOSE k \in NilCalls : \A j \in NilCalls : k <= j

\* the results next returns before its first nil
BeforeFirstNil == SubSeq(listing, 1, FirstNil - 1)

\* C14: listResToChan calls next until it first returns nil and never
\* again; what it has sent is at every moment a prefix of the results
\* before the first nil, in their order, and never holds the nil; when the
\* goroutine has returned without cancellation, everything before the first
\* nil has been sent and the channel is closed, and the consumer whose loop
\* has ended has received exactly those results.
C14_PollUntilNil ==
    /\ idx <= FirstNil
    /\ Len(sent) <= Len(BeforeFirstNil)
    /\ sent = SubSeq(BeforeFirstNil, 1, Len(sent))
    /\ \A k \in 1..Len(sent) : sent[k] # NilListRes
    /\ (ppc = "done" /\ ~ctxDone) =>
          (idx = FirstNil /\ sent = BeforeFirstNil /\ closed)
    /\ (rangeEnded /\ ~ctxDone) => recvd = BeforeFirstNil

\* next returned a result, then nil, and would have returned more: the one
\* result was delivered and the loop of the consumer ended
C14_Witness ==
    /\ FirstNil = 2
    /\ Len(listing) > FirstNil
    /\ ~ctxDone
    /\ rangeEnded
    /\ idx = 2
    /\ recvd = SubSeq(listing, 1, 1)

\* C19: each of the three producer goroutines closes its channel exactly
\* once, as its last action: close(out) is never called a second time, it
\* is called with the return of the goroutine (also on the cancellation
\* return and on the return after a failed Has), and nothing is sent on a
\* closed channel: a step from a state where out is closed leaves out as it
\* is or takes its head away.
C19_ClosedOnceAsLastAction ==
    /\ [](closeCount <= 1)
    /\ [](closed <=> (closeCount = 1 /\ ppc = "done"))
    /\ [](ppc = "done" => closed)
    /\ [][closed => (closed' /\ ppc' = "done" /\ closeCount' = closeCount
                      /\ (out' = out \/ (out # << >> /\ out' = Tail(out))))]_vars

\* listResToChan returned on ctx.Done() with results of next still to
\* come: its channel is closed, once
C19_WitnessCancel ==
    /\ listing # << >>
    /\ ctxDone
    /\ ppc = "done"
    /\ closed
    /\ closeCount = 1
    /\ idx < FirstNil

\* C18: under fair scheduling and a consumer that keeps receiving, the
\* goroutine of perKeyActionToChan and of listResToChan returns and its
\* channel is closed, whether cancellation fires or not, and the consumer's
\* loop ends; and when perKeyActionToChan has returned without
\* cancellation, every argument has yielded exactly one result.
C18_ProducerTerminates ==
    /\ <>(ppc = "done" /\ closed /\ closeCount = 1)
    /\ <>rangeEnded
    /\ []((ppc = "done" /\ ~ctxDone /\ listing = << >>) =>
            /\ Len(sent) = Len(args)
            /\ \A k \in 1..Len(args) : sent[k] = ResultFor(args[k]))

\* the producer was blocked on a full buffer holding one more result, the
\* consumer drained the channel, and the goroutine has returned
C18_Witness ==
    /\ Len(args) > ChanCap
    /\ ppc = "done"
    /\ closed
    /\ rangeEnded
    /\ Len(recvd) = Len(args)

(***************************************************************************)
(* "filestore ls" from end to end.                                         *)
(***************************************************************************)
\* the producer has returned on ctx.Done(), before its input was exhausted
ClosedByCancel == ctxDone /\ closed /\ Len(sent) < Len(args) + Len(BeforeFirstNil)

C15_TypeViolationReported ==
    (lpc # "handle" /\ v.type # ListResType /\ v.type # NilValue.type) =>
        /\ lpc = "done"
        /\ setErrors # << >>
        /\ setErrors[Len(setErrors)].code = ErrNormal
        /\ Len(printed) = pulls - 1
        /\ reCloseCount = 1

\* C16 (amended): the goroutine decides between the direct copy and the
\* progress path exactly once, before it has pulled anything; having
\* decided it keeps the decision; on the progress path it calls Next once,
\* on the direct path not at all.
C16_DecisionOnceBeforePull ==
    /\ [](plan = Nil => (cpc = "start" /\ pulls = 0 /\ catLog = << >>))
    /\ [](cpc # "start" => plan # Nil)
    /\ [][plan # Nil => plan' = plan]_vars
    /\ [](plan = "direct" => pulls = 0)
    /\ [](plan = "progress" => pulls <= 1)
    /\ []((cpc = "done" /\ plan = "progress") => pulls = 1)

\* the progress path has run to its end with one call of Next
C16_Witness ==
    /\ cpc = "done"
    /\ plan = "progress"
    /\ pulls = 1
    /\ Len(stream) > 1
    /\ catLog = <<"Next", "progressBarForReader", "Start", "Emit", "Close">>

\* C16 (as claimed): the decision is made after the first successful pull
\* has yielded the reader.
C16_DecisionAfterFirstPull ==
    [][(plan = Nil /\ plan' # Nil) => (pulls = 1 /\ v.type = ReaderType)]_vars

\* the positions of a call in catLog
CallsOf(name) == {k \in 1..Len(catLog) : catLog[k] = name}

\* C17: on the progress path every Emit comes after bar.Start, what is
\* emitted is the one reader that wraps the pulled one, not the pulled
\* reader itself; and when the pull has failed or the value is no reader,
\* the goroutine neither starts a bar nor emits.
C17_StartBeforeEmit ==
    /\ \A k \in CallsOf("Emit") : \E j \in CallsOf("Start") : j < k
    /\ (plan = "progress" /\ emitted # << >>) =>
          /\ bar.started
          /\ emitted = <<reader>>
          /\ reader.type = ReaderType
          /\ reader # v
    /\ (plan = "progress" /\ cpc = "done" /\ v.type # ReaderType) =>
          /\ CallsOf("Start") = {} /\ CallsOf("Emit") = {}
          /\ ~bar.started
          /\ emitted = << >>

\* the bar was started and the wrapped reader emitted after it
C17_Witness ==
    /\ plan = "progress"
    /\ v = ReaderValue
    /\ bar.started
    /\ CallsOf("Start") = {3}
    /\ CallsOf("Emit") = {4}
    /\ emitted = <<reader>>

\* C20: when the goroutine of cat PostRun is done, its emitter has been
\* closed exactly once and the close is the last call made on it.
C20_ClosedOnceNothingAfter ==
    cpc = "done" =>
        /\ reCloseCount = 1
        /\ reCalls # << >>
        /\ reCalls[Len(reCalls)] = "Close"
        /\ \A k \in 1..(Len(reCalls) - 1) : reCalls[k] # "Close"

=============================================================================
